---- MODULE Spec2Model ----
(***************************************************************************)
(* Model of the translation orchestration of language-translator:          *)
(* translation_service.py (get_translator behind functools.lru_cache,      *)
(* translate_text, translate_text_async).                                   *)
(*                                                                         *)
(* Strings are sequences of atoms.  An atom is one character, or, for the  *)
(* message literals of the code, a fixed run of characters that neither    *)
(* starts nor ends with whitespace.  str.strip() and str.lower() are       *)
(* computed atom by atom.                                                  *)
(***************************************************************************)
EXTENDS Integers, Sequences, FiniteSets, TLC

\* ------------------------------------------------------------------ bounds
MaxLen == 2             \* longest input text when calls come one at a time
MaxConcurrentLen == 1   \* longest input text when calls overlap
NumThreads == 2         \* callers that may be inside translate_text at once
MaxTranslatorSize == 1  \* largest CONFIG['cache']['translator_size'] tried
MaxListCalls == 2       \* calls of get_language_options followed

\* ------------------------------------------------------------- str helpers
Whitespace == {" ", "\t", "\n"}

RECURSIVE lstrip(_)
lstrip(s) ==
    IF s = <<>> THEN <<>>
    ELSE IF Head(s) \in Whitespace THEN lstrip(Tail(s)) ELSE s

RECURSIVE rstrip(_)
rstrip(s) ==
    IF s = <<>> THEN <<>>
    ELSE IF s[Len(s)] \in Whitespace THEN rstrip(SubSeq(s, 1, Len(s) - 1)) ELSE s

\* str.strip(): leading and trailing whitespace removed
strip(s) == rstrip(lstrip(s))

lower_char(c) ==
    CASE c = "E" -> "e"
      [] c = "N" -> "n"
      [] c = "T" -> "t"
      [] c = "R" -> "r"
      [] OTHER -> c

\* str.lower()
lower(s) == [i \in DOMAIN s |-> lower_char(s[i])]

\* ------------------------------------------------------------ input domains
Chars == {" ", "a"}

RECURSIVE StringsUpTo(_)
StringsUpTo(n) ==
    IF n = 0 THEN {<<>>}
    ELSE LET shorter == StringsUpTo(n - 1)
         IN  shorter \cup {Append(s, c) : s \in {x \in shorter : Len(x) = n - 1}, c \in Chars}

Texts == StringsUpTo(MaxLen)

auto == <<"a", "u", "t", "o">>
en == <<"e", "n">>
EN == <<"E", "N">>
tr == <<"t", "r">>
\* a code that is no language of the registry
zz == <<"z", "z">>

SourceSpecs == {auto, en, tr, zz}
TargetCodes == {en, EN, tr, zz}
\* the arguments tried when calls overlap
ConcurrentTexts == StringsUpTo(MaxConcurrentLen)
ConcurrentSourceSpecs == {auto, tr}
ConcurrentTargetCodes == {en, tr}
\* what the backend may report as the detected source language
DetectedCodes == {<<>>, en, EN, tr}
\* what the backend may return as translation of txt
BackendTexts(txt) == {txt, strip(txt), Append(txt, " "), <<"b">>}
\* str(e) of the exceptions the backend call may raise
ErrorDetails == {"timed out", "connection refused"}

Threads == 1..NumThreads
\* the thread that serves the calls when they come one at a time
MainThread == CHOOSE t \in Threads : \A u \in Threads : t <= u
None == 0
NoPair == <<>>
NoResponse == [kind |-> "none", text |-> <<>>, src |-> <<>>, detail |-> ""]

\* ----------------------------------------------------------- message texts
\* mutant: the unavailable message worded differently
UNAVAILABLE_MESSAGE_Reworded ==
    <<"Translation library is not installed on the server.">>

UNAVAILABLE_MESSAGE ==
    <<"Error", ": Translation library (googletrans) is not installed on the server.">>

NOOP_MESSAGE ==
    <<"Translation failed",
      ". The service returned the original text. This may be due to a temporary network issue or an unsupported language.">>

CONNECTION_MESSAGE ==
    <<"Translation error",
      ": Could not connect to the service. Please check your internet connection or try again later.">>

\* ------------------------------------------------------- language registry
\* A dict is the sequence of its <<key, value>> items in insertion order.
dict_has(d, k) == \E i \in DOMAIN d : d[i][1] = k

dict_index(d, k) == CHOOSE i \in DOMAIN d : d[i][1] = k

\* the dict built by inserting the pairs in order: a key keeps the place of
\* its first insertion and the value of its last
dict_build(pairs) ==
    LET first == {i \in DOMAIN pairs : \A j \in 1..(i - 1) : pairs[j][1] # pairs[i][1]}
        last(i) == CHOOSE j \in DOMAIN pairs :
                       /\ pairs[j][1] = pairs[i][1]
                       /\ \A m \in (j + 1)..Len(pairs) : pairs[m][1] # pairs[i][1]
        nth(k) == CHOOSE i \in first : Cardinality({j \in first : j <= i}) = k
    IN  [k \in 1..Cardinality(first) |-> <<pairs[nth(k)][1], pairs[last(nth(k))][2]>>]

\* d.get(k, default)
dict_get(d, k, default) == IF dict_has(d, k) THEN d[dict_index(d, k)][2] ELSE default

\* constants.py: (display name, ISO code); a display name is one atom
LANGUAGES == <<
    <<<<"English (US)">>, <<"e", "n">>>>, <<<<"English (UK)">>, <<"e", "n">>>>,
    <<<<"Turkish">>, <<"t", "r">>>>, <<<<"French">>, <<"f", "r">>>>,
    <<<<"German">>, <<"d", "e">>>>, <<<<"Spanish">>, <<"e", "s">>>>,
    <<<<"Portuguese">>, <<"p", "t">>>>, <<<<"Italian">>, <<"i", "t">>>>,
    <<<<"Japanese">>, <<"j", "a">>>>, <<<<"Korean">>, <<"k", "o">>>>,
    <<<<"Chinese (Simplified)">>, <<"z", "h", "-", "c", "n">>>>, <<<<"Chinese (Traditional)">>, <<"z", "h", "-", "t", "w">>>>,
    <<<<"Arabic">>, <<"a", "r">>>>, <<<<"Russian">>, <<"r", "u">>>>,
    <<<<"Dutch">>, <<"n", "l">>>>, <<<<"Polish">>, <<"p", "l">>>>,
    <<<<"Greek">>, <<"e", "l">>>>, <<<<"Hebrew">>, <<"h", "e">>>>,
    <<<<"Hindi">>, <<"h", "i">>>>, <<<<"Thai">>, <<"t", "h">>>>,
    <<<<"Vietnamese">>, <<"v", "i">>>>, <<<<"Indonesian">>, <<"i", "d">>>>,
    <<<<"Malay">>, <<"m", "s">>>>, <<<<"Filipino">>, <<"t", "l">>>>,
    <<<<"Swedish">>, <<"s", "v">>>>, <<<<"Norwegian">>, <<"n", "o">>>>,
    <<<<"Danish">>, <<"d", "a">>>>, <<<<"Finnish">>, <<"f", "i">>>>,
    <<<<"Czech">>, <<"c", "s">>>>, <<<<"Slovak">>, <<"s", "k">>>>,
    <<<<"Hungarian">>, <<"h", "u">>>>, <<<<"Romanian">>, <<"r", "o">>>>,
    <<<<"Bulgarian">>, <<"b", "g">>>>, <<<<"Croatian">>, <<"h", "r">>>>,
    <<<<"Serbian">>, <<"s", "r">>>>, <<<<"Ukrainian">>, <<"u", "k">>>>,
    <<<<"Lithuanian">>, <<"l", "t">>>>, <<<<"Latvian">>, <<"l", "v">>>>,
    <<<<"Estonian">>, <<"e", "t">>>>, <<<<"Slovenian">>, <<"s", "l">>>>,
    <<<<"Catalan">>, <<"c", "a">>>>, <<<<"Basque">>, <<"e", "u">>>>,
    <<<<"Galician">>, <<"g", "l">>>>, <<<<"Welsh">>, <<"c", "y">>>>,
    <<<<"Irish">>, <<"g", "a">>>>, <<<<"Icelandic">>, <<"i", "s">>>>,
    <<<<"Maltese">>, <<"m", "t">>>>, <<<<"Esperanto">>, <<"e", "o">>>>,
    <<<<"Latin">>, <<"l", "a">>>>, <<<<"Persian">>, <<"f", "a">>>>,
    <<<<"Urdu">>, <<"u", "r">>>>, <<<<"Bengali">>, <<"b", "n">>>>,
    <<<<"Tamil">>, <<"t", "a">>>>, <<<<"Telugu">>, <<"t", "e">>>>,
    <<<<"Gujarati">>, <<"g", "u">>>>, <<<<"Punjabi">>, <<"p", "a">>>>,
    <<<<"Marathi">>, <<"m", "r">>>>, <<<<"Kannada">>, <<"k", "n">>>>,
    <<<<"Malayalam">>, <<"m", "l">>>>, <<<<"Sinhalese">>, <<"s", "i">>>>,
    <<<<"Nepali">>, <<"n", "e">>>>, <<<<"Burmese">>, <<"m", "y">>>>,
    <<<<"Khmer">>, <<"k", "m">>>>, <<<<"Lao">>, <<"l", "o">>>>,
    <<<<"Georgian">>, <<"k", "a">>>>, <<<<"Armenian">>, <<"h", "y">>>>,
    <<<<"Azerbaijani">>, <<"a", "z">>>>, <<<<"Kazakh">>, <<"k", "k">>>>,
    <<<<"Kyrgyz">>, <<"k", "y">>>>, <<<<"Uzbek">>, <<"u", "z">>>>,
    <<<<"Tajik">>, <<"t", "g">>>>, <<<<"Mongolian">>, <<"m", "n">>>>,
    <<<<"Tibetan">>, <<"b", "o">>>>, <<<<"Swahili">>, <<"s", "w">>>>,
    <<<<"Amharic">>, <<"a", "m">>>>, <<<<"Somali">>, <<"s", "o">>>>,
    <<<<"Zulu">>, <<"z", "u">>>>, <<<<"Xhosa">>, <<"x", "h">>>>,
    <<<<"Afrikaans">>, <<"a", "f">>>>, <<<<"Hausa">>, <<"h", "a">>>>,
    <<<<"Yoruba">>, <<"y", "o">>>>, <<<<"Igbo">>, <<"i", "g">>>>
>>

\* {n: c for n, c in LANGUAGES}
LANG_BY_NAME == dict_build(LANGUAGES)

\* {c: n for n, c in LANGUAGES}
LANG_BY_CODE ==
    dict_build([i \in DOMAIN LANGUAGES |-> <<LANGUAGES[i][2], LANGUAGES[i][1]>>])

\* [n for n, _ in LANGUAGES]
LANG_NAMES == [i \in DOMAIN LANGUAGES |-> LANGUAGES[i][1]]

LANG_TTS_ITEMS == <<
    <<<<"e", "n">>, <<"e", "n", "-", "U", "S">>>>, <<<<"t", "r">>, <<"t", "r", "-", "T", "R">>>>,
    <<<<"f", "r">>, <<"f", "r", "-", "F", "R">>>>, <<<<"d", "e">>, <<"d", "e", "-", "D", "E">>>>,
    <<<<"e", "s">>, <<"e", "s", "-", "E", "S">>>>, <<<<"p", "t">>, <<"p", "t", "-", "B", "R">>>>,
    <<<<"i", "t">>, <<"i", "t", "-", "I", "T">>>>, <<<<"j", "a">>, <<"j", "a", "-", "J", "P">>>>,
    <<<<"k", "o">>, <<"k", "o", "-", "K", "R">>>>, <<<<"z", "h", "-", "c", "n">>, <<"z", "h", "-", "C", "N">>>>,
    <<<<"z", "h", "-", "t", "w">>, <<"z", "h", "-", "T", "W">>>>, <<<<"a", "r">>, <<"a", "r", "-", "S", "A">>>>,
    <<<<"r", "u">>, <<"r", "u", "-", "R", "U">>>>, <<<<"n", "l">>, <<"n", "l", "-", "N", "L">>>>,
    <<<<"p", "l">>, <<"p", "l", "-", "P", "L">>>>, <<<<"e", "l">>, <<"e", "l", "-", "G", "R">>>>,
    <<<<"h", "e">>, <<"h", "e", "-", "I", "L">>>>, <<<<"h", "i">>, <<"h", "i", "-", "I", "N">>>>,
    <<<<"t", "h">>, <<"t", "h", "-", "T", "H">>>>, <<<<"v", "i">>, <<"v", "i", "-", "V", "N">>>>,
    <<<<"i", "d">>, <<"i", "d", "-", "I", "D">>>>, <<<<"m", "s">>, <<"m", "s", "-", "M", "Y">>>>,
    <<<<"t", "l">>, <<"t", "l", "-", "P", "H">>>>, <<<<"s", "v">>, <<"s", "v", "-", "S", "E">>>>,
    <<<<"n", "o">>, <<"n", "o", "-", "N", "O">>>>, <<<<"d", "a">>, <<"d", "a", "-", "D", "K">>>>,
    <<<<"f", "i">>, <<"f", "i", "-", "F", "I">>>>, <<<<"c", "s">>, <<"c", "s", "-", "C", "Z">>>>,
    <<<<"s", "k">>, <<"s", "k", "-", "S", "K">>>>, <<<<"h", "u">>, <<"h", "u", "-", "H", "U">>>>,
    <<<<"r", "o">>, <<"r", "o", "-", "R", "O">>>>, <<<<"b", "g">>, <<"b", "g", "-", "B", "G">>>>,
    <<<<"h", "r">>, <<"h", "r", "-", "H", "R">>>>, <<<<"s", "r">>, <<"s", "r", "-", "R", "S">>>>,
    <<<<"u", "k">>, <<"u", "k", "-", "U", "A">>>>, <<<<"l", "t">>, <<"l", "t", "-", "L", "T">>>>,
    <<<<"l", "v">>, <<"l", "v", "-", "L", "V">>>>, <<<<"e", "t">>, <<"e", "t", "-", "E", "E">>>>,
    <<<<"s", "l">>, <<"s", "l", "-", "S", "I">>>>, <<<<"c", "a">>, <<"c", "a", "-", "E", "S">>>>,
    <<<<"c", "y">>, <<"c", "y", "-", "G", "B">>>>, <<<<"g", "a">>, <<"g", "a", "-", "I", "E">>>>,
    <<<<"i", "s">>, <<"i", "s", "-", "I", "S">>>>, <<<<"m", "t">>, <<"m", "t", "-", "M", "T">>>>,
    <<<<"f", "a">>, <<"f", "a", "-", "I", "R">>>>, <<<<"u", "r">>, <<"u", "r", "-", "P", "K">>>>,
    <<<<"b", "n">>, <<"b", "n", "-", "I", "N">>>>, <<<<"t", "a">>, <<"t", "a", "-", "I", "N">>>>,
    <<<<"t", "e">>, <<"t", "e", "-", "I", "N">>>>, <<<<"g", "u">>, <<"g", "u", "-", "I", "N">>>>,
    <<<<"p", "a">>, <<"p", "a", "-", "I", "N">>>>, <<<<"m", "r">>, <<"m", "r", "-", "I", "N">>>>,
    <<<<"k", "n">>, <<"k", "n", "-", "I", "N">>>>, <<<<"m", "l">>, <<"m", "l", "-", "I", "N">>>>,
    <<<<"s", "i">>, <<"s", "i", "-", "L", "K">>>>, <<<<"n", "e">>, <<"n", "e", "-", "N", "P">>>>,
    <<<<"m", "y">>, <<"m", "y", "-", "M", "M">>>>, <<<<"k", "m">>, <<"k", "m", "-", "K", "H">>>>,
    <<<<"l", "o">>, <<"l", "o", "-", "L", "A">>>>, <<<<"k", "a">>, <<"k", "a", "-", "G", "E">>>>,
    <<<<"h", "y">>, <<"h", "y", "-", "A", "M">>>>, <<<<"a", "z">>, <<"a", "z", "-", "A", "Z">>>>,
    <<<<"k", "k">>, <<"k", "k", "-", "K", "Z">>>>, <<<<"k", "y">>, <<"k", "y", "-", "K", "G">>>>,
    <<<<"u", "z">>, <<"u", "z", "-", "U", "Z">>>>, <<<<"t", "g">>, <<"t", "g", "-", "T", "J">>>>,
    <<<<"m", "n">>, <<"m", "n", "-", "M", "N">>>>, <<<<"s", "w">>, <<"s", "w", "-", "K", "E">>>>,
    <<<<"a", "m">>, <<"a", "m", "-", "E", "T">>>>, <<<<"s", "o">>, <<"s", "o", "-", "S", "O">>>>,
    <<<<"z", "u">>, <<"z", "u", "-", "Z", "A">>>>, <<<<"x", "h">>, <<"x", "h", "-", "Z", "A">>>>,
    <<<<"a", "f">>, <<"a", "f", "-", "Z", "A">>>>, <<<<"h", "a">>, <<"h", "a", "-", "N", "G">>>>,
    <<<<"y", "o">>, <<"y", "o", "-", "N", "G">>>>, <<<<"i", "g">>, <<"i", "g", "-", "N", "G">>>>
>>

LANG_TTS_MAP == dict_build(LANG_TTS_ITEMS)

\* mutant: the options built from the reverse lookup
get_language_options_ByCode ==
    [i \in DOMAIN LANG_BY_CODE |-> [label |-> LANG_BY_CODE[i][2], value |-> LANG_BY_CODE[i][1]]]

\* app.py get_language_options: one {label, value} per item of LANG_BY_NAME
get_language_options ==
    [i \in DOMAIN LANG_BY_NAME |-> [label |-> LANG_BY_NAME[i][1], value |-> LANG_BY_NAME[i][2]]]

\* mutant: no fallback to the code itself
get_tts_language_NoFallback(lang_code) == dict_get(LANG_TTS_MAP, lang_code, <<>>)

\* app.py get_tts_language
get_tts_language(lang_code) == dict_get(LANG_TTS_MAP, lang_code, lang_code)

\* translation_service.py get_tts_language
service_get_tts_language(lang_code) == dict_get(LANG_TTS_MAP, lang_code, lang_code)

\* the codes a caller of the registry asks about
QueryCodes == {LANGUAGES[i][2] : i \in DOMAIN LANGUAGES} \cup {zz, EN, <<>>}

NoLookup == [kind |-> "none", code |-> <<>>, app |-> <<>>, service |-> <<>>, name |-> <<>>]

\* ---------------------------------------------------------------- the page
\* None, the value of a textarea nothing was written to
Missing == <<"None">>

\* Python truth of a textarea value: None and "" are false
Falsy(v) == v = Missing \/ v = <<>>

\* str.startswith(prefix)
startswith(s, prefix) == Len(s) >= Len(prefix) /\ SubSeq(s, 1, Len(prefix)) = prefix

\* what the user types into the input textarea
TypedTexts == {<<>>, <<" ">>, <<"a">>}
\* the dropdown options the user picks among
SourceChoices == {tr, <<"e", "u">>}
TargetChoices == {en, tr}

\* create_icon_buttons_html: the text, the speech language and the disabled
\* attribute embedded in the generated document
create_icon_buttons_html(text, lang_code, disabled) ==
    [text |-> IF Falsy(text) THEN <<>> ELSE text, lang_code |-> lang_code, disabled |-> disabled]

\* callback update_input_buttons, app.py 672-693
update_input_buttons(text, s_lang, auto_checked) ==
    LET disabled == Falsy(text) \/ strip(text) = <<>>
        lang_code == IF auto_checked THEN auto ELSE get_tts_language(s_lang)
    IN  create_icon_buttons_html(text, lang_code, disabled)

\* callback update_output_buttons, app.py 695-711
update_output_buttons(text, t_lang) ==
    LET disabled == \/ Falsy(text)
                    \/ strip(text) = <<>>
                    \/ startswith(text, <<"Translation error">>)
        lang_code == get_tts_language(t_lang)
    IN  create_icon_buttons_html(text, lang_code, disabled)

\* callback toggle_source_dropdown, app.py 586-598
toggle_source_dropdown(auto_checked) == auto_checked

\* mutant: the dropdown value used whatever the checkbox says
translation_source_IgnoreAuto(auto_checked, s_lang) == s_lang

\* perform_translation, app.py 623: source = "auto" if is_auto else src_lang
translation_source(auto_checked, s_lang) == IF auto_checked THEN auto ELSE s_lang

\* -------------------------------------------------------------------- state
VARIABLES
    TRANSLATOR_AVAILABLE,  \* module global set by the import of googletrans
    translator_size,       \* CONFIG['cache']['translator_size'], maxsize of the cache
    cache,                 \* lru_cache of get_translator: <<>> or <<value>>
    created,               \* number of Translator() objects constructed so far
    pc,                    \* per caller: position inside the call
    entry,                 \* per caller: "sync" (translate_text) or "async" (translate_text_async)
    txt, src, tgt,         \* per caller: arguments of the call
    translator,            \* per caller: local variable translator
    calls,                 \* per caller: backend invocations made by the current call
    request,               \* per caller: arguments handed to translator.translate
    response,              \* per caller: what the backend answered
    returned,              \* per caller: pair returned by translate_text
    result,                \* per caller: pair delivered to the caller
    options,               \* what the calls of get_language_options returned, in order
    lookup,                \* the latest registry lookup: get_tts_language or LANG_BY_CODE
    input_value,           \* input-textarea.value
    output_value,          \* output-textarea.value
    is_auto,               \* auto-detect-checkbox.value
    src_lang, tgt_lang,    \* source-lang-dropdown.value, target-lang-dropdown.value
    source_disabled,       \* source-lang-dropdown.disabled
    input_buttons,         \* input-buttons-iframe.srcDoc: text, lang_code, disabled
    output_buttons,        \* output-buttons-iframe.srcDoc: text, lang_code, disabled
    pending                \* callbacks triggered and not yet run

vars == <<TRANSLATOR_AVAILABLE, translator_size, cache, created,
          pc, entry, txt, src, tgt, translator, calls, request, response,
          returned, result, options, lookup,
          input_value, output_value, is_auto, src_lang, tgt_lang, source_disabled,
          input_buttons, output_buttons, pending>>

registry == <<options, lookup>>
page == <<input_value, output_value, is_auto, src_lang, tgt_lang, source_disabled,
          input_buttons, output_buttons, pending>>
service == <<cache, created, pc, entry, txt, src, tgt, translator, calls, request,
             response, returned, result>>
globals == <<TRANSLATOR_AVAILABLE, translator_size>>
args == <<entry, txt, src, tgt>>

\* translation_service and constants imported, nothing called yet
ServiceInit ==
    /\ TRANSLATOR_AVAILABLE \in BOOLEAN
    /\ translator_size \in 1..MaxTranslatorSize
    /\ cache = <<>>
    /\ created = 0
    /\ pc = [t \in Threads |-> "idle"]
    /\ entry = [t \in Threads |-> "sync"]
    /\ txt = [t \in Threads |-> <<>>]
    /\ src = [t \in Threads |-> <<>>]
    /\ tgt = [t \in Threads |-> <<>>]
    /\ translator = [t \in Threads |-> None]
    /\ calls = [t \in Threads |-> 0]
    /\ request = [t \in Threads |-> <<>>]
    /\ response = [t \in Threads |-> NoResponse]
    /\ returned = [t \in Threads |-> NoPair]
    /\ result = [t \in Threads |-> NoPair]
    /\ options = <<>>
    /\ lookup = NoLookup

\* no page is open in a browser
PageClosed ==
    /\ input_value = Missing
    /\ output_value = Missing
    /\ is_auto = TRUE
    /\ src_lang = <<>>
    /\ tgt_lang = <<>>
    /\ source_disabled = TRUE
    /\ input_buttons = create_icon_buttons_html(<<>>, <<"e", "n", "-", "U", "S">>, TRUE)
    /\ output_buttons = create_icon_buttons_html(<<>>, <<"t", "r", "-", "T", "R">>, TRUE)
    /\ pending = {}

Init == ServiceInit /\ PageClosed

\* app.layout shown in a browser, after the callbacks without
\* prevent_initial_call have run on the load
PageLoaded ==
    /\ input_value = Missing
    /\ output_value = Missing
    /\ is_auto = TRUE
    /\ src_lang \in SourceChoices
    /\ tgt_lang \in TargetChoices
    /\ source_disabled = toggle_source_dropdown(TRUE)
    /\ input_buttons = update_input_buttons(Missing, src_lang, TRUE)
    /\ output_buttons = update_output_buttons(Missing, tgt_lang)
    /\ pending = {}

PageInit == ServiceInit /\ PageLoaded

\* ------------------------------------------------------------ pure pieces
\* mutant: the empty test without strip()
EarlyReturn_NoStrip(tr_obj, t_txt, t_src) ==
    IF tr_obj = None THEN <<UNAVAILABLE_MESSAGE, t_src>>
    ELSE IF t_txt = <<>> THEN <<<<>>, en>>
    ELSE NoPair

\* mutant: the empty test placed before the availability test
EarlyReturn_EmptyFirst(tr_obj, t_txt, t_src) ==
    IF strip(t_txt) = <<>> THEN <<<<>>, en>>
    ELSE IF tr_obj = None THEN <<UNAVAILABLE_MESSAGE, t_src>>
    ELSE NoPair

\* lines 57-63: the two early returns; NoPair when the call goes on to the backend
EarlyReturn(tr_obj, t_txt, t_src) ==
    IF tr_obj = None THEN <<UNAVAILABLE_MESSAGE, t_src>>
    ELSE IF strip(t_txt) = <<>> THEN <<<<>>, en>>
    ELSE NoPair

\* mutant: the texts compared without strip()
ReturnedOriginal_NoStrip(t_txt, t_tgt, translated_text, detected_src) ==
    /\ detected_src # <<>>
    /\ lower(detected_src) # lower(t_tgt)
    /\ translated_text = t_txt

\* mutant: the codes compared without lower()
ReturnedOriginal_NoLower(t_txt, t_tgt, translated_text, detected_src) ==
    /\ detected_src # <<>>
    /\ detected_src # t_tgt
    /\ strip(translated_text) = strip(t_txt)

\* line 73: the service returned the original text
ReturnedOriginal(t_txt, t_tgt, translated_text, detected_src) ==
    /\ detected_src # <<>>
    /\ lower(detected_src) # lower(t_tgt)
    /\ strip(translated_text) = strip(t_txt)

\* lines 69-80: the pair returned when the backend call returns normally
OnSuccess(t_txt, t_tgt, translated_text, detected_src) ==
    IF ReturnedOriginal(t_txt, t_tgt, translated_text, detected_src)
    THEN <<NOOP_MESSAGE, detected_src>>
    ELSE <<translated_text, detected_src>>

\* mutant: the source specifier returned even when it is "auto"
OnError_NoFallback(t_src, e) == <<CONNECTION_MESSAGE, t_src>>

\* mutant: str(e) appended to the message
OnError_WithDetail(t_src, e) ==
    <<Append(CONNECTION_MESSAGE, e), IF t_src # auto THEN t_src ELSE en>>

\* lines 82-90: the pair returned when the backend call raises e
OnError(t_src, e) ==
    LET detected_source_on_error == IF t_src # auto THEN t_src ELSE en
    IN  <<CONNECTION_MESSAGE, detected_source_on_error>>

\* mutant: the wrapper keeps the text and replaces the detected source
ToThreadResult_TextOnly(r) == <<r[1], <<>>>>

\* asyncio.to_thread hands the worker's return value to the awaiting coroutine
ToThreadResult(r) == r

\* mutant: the text trimmed before it is sent
TranslateArgs_Trimmed(t_txt, t_src, t_tgt) == <<strip(t_txt), t_src, t_tgt>>

\* line 67: translator.translate(txt, src=src, dest=tgt)
TranslateArgs(t_txt, t_src, t_tgt) == <<t_txt, t_src, t_tgt>>

\* ------------------------------------------------------------------ actions
\* translate_text returns pair to its caller: directly, or into the future
Return(t, pair) ==
    /\ returned' = [returned EXCEPT ![t] = pair]
    /\ IF entry[t] = "sync"
       THEN /\ pc' = [pc EXCEPT ![t] = "done"]
            /\ result' = [result EXCEPT ![t] = pair]
       ELSE /\ pc' = [pc EXCEPT ![t] = "returned"]
            /\ UNCHANGED result

\* a caller enters translate_text or translate_text_async with arguments from X, S, G
Enter(t, X, S, G) ==
    /\ pc[t] = "idle"
    /\ \E e \in {"sync", "async"}, x \in X, s \in S, g \in G :
         /\ entry' = [entry EXCEPT ![t] = e]
         /\ txt' = [txt EXCEPT ![t] = x]
         /\ src' = [src EXCEPT ![t] = s]
         /\ tgt' = [tgt EXCEPT ![t] = g]
         /\ pc' = [pc EXCEPT ![t] = IF e = "sync" THEN "get_translator" ELSE "to_thread"]
    /\ UNCHANGED <<globals, registry, page, cache, created, translator, calls,
                   request, response, returned, result>>

Call(t) == Enter(t, Texts, SourceSpecs, TargetCodes)

ConcurrentCall(t) == Enter(t, ConcurrentTexts, ConcurrentSourceSpecs, ConcurrentTargetCodes)

\* asyncio.to_thread: the worker thread starts running translate_text
StartWorker(t) ==
    /\ pc[t] = "to_thread"
    /\ pc' = [pc EXCEPT ![t] = "get_translator"]
    /\ UNCHANGED <<globals, registry, page, args, cache, created, translator, calls,
                   request, response, returned, result>>

\* lru_cache wrapper, first half: look the (empty) key up
CacheLookup(t) ==
    /\ pc[t] = "get_translator"
    /\ IF translator_size > 0 /\ cache # <<>>
       THEN /\ translator' = [translator EXCEPT ![t] = cache[1]]
            /\ pc' = [pc EXCEPT ![t] = "check"]
       ELSE /\ pc' = [pc EXCEPT ![t] = "miss"]
            /\ UNCHANGED translator
    /\ UNCHANGED <<globals, registry, page, args, cache, created, calls,
                   request, response, returned, result>>

\* body of get_translator, run on a cache miss
GetTranslatorBody(t) ==
    /\ pc[t] = "miss"
    /\ IF ~TRANSLATOR_AVAILABLE
       THEN /\ translator' = [translator EXCEPT ![t] = None]
            /\ UNCHANGED created
       ELSE /\ created' = created + 1
            /\ translator' = [translator EXCEPT ![t] = created + 1]
    /\ pc' = [pc EXCEPT ![t] = "store"]
    /\ UNCHANGED <<globals, registry, page, args, cache, calls,
                   request, response, returned, result>>

\* lru_cache wrapper, second half: keep the value unless the key got cached meanwhile
CacheStore(t) ==
    /\ pc[t] = "store"
    /\ cache' = IF translator_size > 0 /\ cache = <<>> THEN <<translator[t]>> ELSE cache
    /\ pc' = [pc EXCEPT ![t] = "check"]
    /\ UNCHANGED <<globals, registry, page, args, created, translator, calls,
                   request, response, returned, result>>

\* lines 57-67: early returns, else the backend is invoked
CheckAndInvoke(t) ==
    /\ pc[t] = "check"
    /\ LET early == EarlyReturn(translator[t], txt[t], src[t])
       IN  IF early # NoPair
           THEN /\ Return(t, early)
                /\ UNCHANGED <<calls, request>>
           ELSE /\ pc' = [pc EXCEPT ![t] = "translate"]
                /\ calls' = [calls EXCEPT ![t] = calls[t] + 1]
                /\ request' = [request EXCEPT ![t] = TranslateArgs(txt[t], src[t], tgt[t])]
                /\ UNCHANGED <<returned, result>>
    /\ UNCHANGED <<globals, registry, page, args, cache, created, translator, response>>

\* translator.translate returns res; lines 69-80
BackendReturns(t) ==
    /\ pc[t] = "translate"
    /\ \E text \in BackendTexts(request[t][1]), d \in DetectedCodes :
         /\ response' = [response EXCEPT ![t] =
                            [kind |-> "ok", text |-> text, src |-> d, detail |-> ""]]
         /\ Return(t, OnSuccess(txt[t], tgt[t], text, d))
    /\ UNCHANGED <<globals, registry, page, args, cache, created, translator, calls, request>>

\* mutant: one retry of the backend call after an error
BackendRaises_Retry(t) ==
    /\ pc[t] = "translate"
    /\ \E e \in ErrorDetails :
         IF calls[t] < 2
         THEN /\ calls' = [calls EXCEPT ![t] = calls[t] + 1]
              /\ UNCHANGED <<pc, response, returned, result>>
         ELSE /\ response' = [response EXCEPT ![t] =
                                 [kind |-> "error", text |-> <<>>, src |-> <<>>, detail |-> e]]
              /\ Return(t, OnError(src[t], e))
              /\ UNCHANGED calls
    /\ UNCHANGED <<globals, registry, page, args, cache, created, translator, request>>

\* mutant: no except clause, the exception leaves translate_text
BackendRaises_Propagates(t) ==
    /\ pc[t] = "translate"
    /\ \E e \in ErrorDetails :
         response' = [response EXCEPT ![t] =
                         [kind |-> "error", text |-> <<>>, src |-> <<>>, detail |-> e]]
    /\ pc' = [pc EXCEPT ![t] = "raised"]
    /\ UNCHANGED <<globals, registry, page, args, cache, created, translator, calls, request,
                   returned, result>>

\* mutant: the fallback source taken from whichever call set it last
BackendRaises_SharedSource(t) ==
    /\ pc[t] = "translate"
    /\ \E e \in ErrorDetails, u \in Threads :
         /\ pc[u] # "idle"
         /\ response' = [response EXCEPT ![t] =
                            [kind |-> "error", text |-> <<>>, src |-> <<>>, detail |-> e]]
         /\ Return(t, OnError(src[u], e))
    /\ UNCHANGED <<globals, registry, page, args, cache, created, translator, calls, request>>

\* translator.translate raises e; lines 82-90
BackendRaises(t) ==
    /\ pc[t] = "translate"
    /\ \E e \in ErrorDetails :
         /\ response' = [response EXCEPT ![t] =
                            [kind |-> "error", text |-> <<>>, src |-> <<>>, detail |-> e]]
         /\ Return(t, OnError(src[t], e))
    /\ UNCHANGED <<globals, registry, page, args, cache, created, translator, calls, request>>

\* the awaiting coroutine of translate_text_async resumes with the worker's value
Resolve(t) ==
    /\ pc[t] = "returned"
    /\ result' = [result EXCEPT ![t] = ToThreadResult(returned[t])]
    /\ pc' = [pc EXCEPT ![t] = "done"]
    /\ UNCHANGED <<globals, registry, page, args, cache, created, translator, calls,
                   request, response, returned>>

\* the caller has consumed the result; the frame's locals are gone
Finish(t) ==
    /\ pc[t] = "done"
    /\ pc' = [pc EXCEPT ![t] = "idle"]
    /\ entry' = [entry EXCEPT ![t] = "sync"]
    /\ txt' = [txt EXCEPT ![t] = <<>>]
    /\ src' = [src EXCEPT ![t] = <<>>]
    /\ tgt' = [tgt EXCEPT ![t] = <<>>]
    /\ translator' = [translator EXCEPT ![t] = None]
    /\ calls' = [calls EXCEPT ![t] = 0]
    /\ request' = [request EXCEPT ![t] = <<>>]
    /\ response' = [response EXCEPT ![t] = NoResponse]
    /\ returned' = [returned EXCEPT ![t] = NoPair]
    /\ result' = [result EXCEPT ![t] = NoPair]
    /\ UNCHANGED <<globals, registry, page, cache, created>>

\* calls served one at a time, by one thread
Next ==
    \E t \in {MainThread} :
        \/ Call(t)
        \/ StartWorker(t)
        \/ CacheLookup(t)
        \/ GetTranslatorBody(t)
        \/ CacheStore(t)
        \/ CheckAndInvoke(t)
        \/ BackendReturns(t)
        \/ BackendRaises(t)
        \/ Resolve(t)
        \/ Finish(t)

Spec == Init /\ [][Next]_vars

\* a call that has started keeps running: the interpreter schedules its thread
\* and the blocking backend call ends by returning or by raising
Progress ==
    \E t \in {MainThread} :
        \/ StartWorker(t)
        \/ CacheLookup(t)
        \/ GetTranslatorBody(t)
        \/ CacheStore(t)
        \/ CheckAndInvoke(t)
        \/ BackendReturns(t)
        \/ BackendRaises(t)
        \/ Resolve(t)

FairSpec == Init /\ [][Next]_vars /\ WF_vars(Progress)

\* calls that overlap: every thread may be anywhere inside its own call
ConcurrentNext ==
    \E t \in Threads :
        \/ ConcurrentCall(t)
        \/ StartWorker(t)
        \/ CacheLookup(t)
        \/ GetTranslatorBody(t)
        \/ CacheStore(t)
        \/ CheckAndInvoke(t)
        \/ BackendReturns(t)
        \/ BackendRaises(t)
        \/ Resolve(t)
        \/ Finish(t)

ConcurrentSpec == Init /\ [][ConcurrentNext]_vars

\* ------------------------------------------------------- the page's events
\* Dash runs a callback when a property named as its Input changes, with the
\* values its State properties have then; the event and the callbacks it
\* triggers are one step.

\* the user edits the input textarea: update_input_buttons runs
TypeInput ==
    /\ \E x \in TypedTexts :
         /\ x # input_value
         /\ input_value' = x
         /\ input_buttons' = update_input_buttons(x, src_lang, is_auto)
    /\ UNCHANGED <<globals, registry, service, output_value, is_auto, src_lang, tgt_lang,
                   source_disabled, output_buttons, pending>>

\* the user ticks or unticks Auto Detect: toggle_source_dropdown runs
ToggleAuto ==
    /\ is_auto' = ~is_auto
    /\ source_disabled' = toggle_source_dropdown(~is_auto)
    /\ UNCHANGED <<globals, registry, service, input_value, output_value, src_lang, tgt_lang,
                   input_buttons, output_buttons, pending>>

\* the user picks a source language in the enabled dropdown: no callback has
\* its value as Input
SelectSource ==
    /\ ~source_disabled
    /\ \E c \in SourceChoices :
         /\ c # src_lang
         /\ src_lang' = c
    /\ UNCHANGED <<globals, registry, service, input_value, output_value, is_auto, tgt_lang,
                   source_disabled, input_buttons, output_buttons, pending>>

\* the user picks a target language: no callback has its value as Input
SelectTarget ==
    /\ \E c \in TargetChoices :
         /\ c # tgt_lang
         /\ tgt_lang' = c
    /\ UNCHANGED <<globals, registry, service, input_value, output_value, is_auto, src_lang,
                   source_disabled, input_buttons, output_buttons, pending>>

\* callback clear_text on a click of Clear, app.py 627-642; both textareas
\* change, so both button callbacks run
clear_text ==
    /\ input_value' = <<>>
    /\ output_value' = <<>>
    /\ input_buttons' = update_input_buttons(<<>>, src_lang, is_auto)
    /\ output_buttons' = update_output_buttons(<<>>, tgt_lang)
    /\ UNCHANGED <<globals, registry, service, is_auto, src_lang, tgt_lang,
                   source_disabled, pending>>

\* the user clicks Translate
ClickTranslate ==
    /\ "perform_translation" \notin pending
    /\ pending' = pending \cup {"perform_translation"}
    /\ UNCHANGED <<globals, registry, service, input_value, output_value, is_auto, src_lang,
                   tgt_lang, source_disabled, input_buttons, output_buttons>>

\* callback perform_translation, app.py 600-624: the early return, else the
\* call of translate_text
perform_translation(t) ==
    /\ "perform_translation" \in pending
    /\ pc[t] = "idle"
    /\ IF Falsy(input_value) \/ strip(input_value) = <<>>
       THEN /\ output_value' = <<>>
            /\ output_buttons' = update_output_buttons(<<>>, tgt_lang)
            /\ pending' = pending \ {"perform_translation"}
            /\ UNCHANGED <<pc, entry, txt, src, tgt>>
       ELSE /\ pc' = [pc EXCEPT ![t] = "get_translator"]
            /\ entry' = [entry EXCEPT ![t] = "sync"]
            /\ txt' = [txt EXCEPT ![t] = input_value]
            /\ src' = [src EXCEPT ![t] = translation_source(is_auto, src_lang)]
            /\ tgt' = [tgt EXCEPT ![t] = tgt_lang]
            /\ pending' = pending \ {"perform_translation"}
            /\ UNCHANGED <<output_value, output_buttons>>
    /\ UNCHANGED <<globals, registry, cache, created, translator, calls, request, response,
                   returned, result, input_value, is_auto, src_lang, tgt_lang,
                   source_disabled, input_buttons>>

\* perform_translation, app.py 624-625: translate_text has returned, its first
\* component becomes the output textarea's value and update_output_buttons runs
perform_translation_return(t) ==
    /\ pc[t] = "done"
    /\ output_value' = result[t][1]
    /\ output_buttons' = update_output_buttons(result[t][1], tgt_lang)
    /\ pc' = [pc EXCEPT ![t] = "idle"]
    /\ entry' = [entry EXCEPT ![t] = "sync"]
    /\ txt' = [txt EXCEPT ![t] = <<>>]
    /\ src' = [src EXCEPT ![t] = <<>>]
    /\ tgt' = [tgt EXCEPT ![t] = <<>>]
    /\ translator' = [translator EXCEPT ![t] = None]
    /\ calls' = [calls EXCEPT ![t] = 0]
    /\ request' = [request EXCEPT ![t] = <<>>]
    /\ response' = [response EXCEPT ![t] = NoResponse]
    /\ returned' = [returned EXCEPT ![t] = NoPair]
    /\ result' = [result EXCEPT ![t] = NoPair]
    /\ UNCHANGED <<globals, registry, cache, created, input_value, is_auto, src_lang,
                   tgt_lang, source_disabled, input_buttons, pending>>

\* one browser page served by one worker thread
PageNext ==
    \/ TypeInput
    \/ ToggleAuto
    \/ SelectSource
    \/ SelectTarget
    \/ clear_text
    \/ ClickTranslate
    \/ \E t \in {MainThread} :
          \/ perform_translation(t)
          \/ CacheLookup(t)
          \/ GetTranslatorBody(t)
          \/ CacheStore(t)
          \/ CheckAndInvoke(t)
          \/ BackendReturns(t)
          \/ BackendRaises(t)
          \/ perform_translation_return(t)

PageSpec == PageInit /\ [][PageNext]_vars

\* --------------------------------------------------------- registry clients
\* a caller lists the languages (the layout does so for each dropdown)
ListLanguages ==
    /\ Len(options) < MaxListCalls
    /\ options' = Append(options, get_language_options)
    /\ UNCHANGED <<globals, service, page, lookup>>

\* a caller asks for the speech locale of a code
LocaleFor ==
    /\ \E c \in QueryCodes :
         lookup' = [kind |-> "tts", code |-> c,
                    app |-> get_tts_language(c),
                    service |-> service_get_tts_language(c),
                    name |-> <<>>]
    /\ UNCHANGED <<globals, service, page, options>>

\* a caller reads LANG_BY_CODE[code] for a code of the registry
NameFor ==
    /\ \E i \in DOMAIN LANG_BY_CODE :
         lookup' = [kind |-> "name", code |-> LANG_BY_CODE[i][1],
                    app |-> <<>>, service |-> <<>>,
                    name |-> dict_get(LANG_BY_CODE, LANG_BY_CODE[i][1], <<>>)]
    /\ UNCHANGED <<globals, service, page, options>>

RegistryNext == ListLanguages \/ LocaleFor \/ NameFor

RegistrySpec == Init /\ [][RegistryNext]_vars

\* ------------------------------------------------------------------ claims
HasReturned(t) == returned[t] # NoPair
Blank(s) == strip(s) = <<>>

\* C1 as stated: for every empty or whitespace-only text and every backend
\* state, translate_text returns ("", "en") and the backend is not invoked.
C1_BlankAlwaysEmptyEn ==
    \A t \in Threads :
        (HasReturned(t) /\ Blank(txt[t])) =>
            (returned[t] = <<<<>>, <<"e", "n">>>> /\ calls[t] = 0)

\* C1 amended: when the backend is available, every empty or whitespace-only
\* text returns ("", "en"); in every backend state the backend is not invoked.
C1_BlankEmptyEnWhenAvailable ==
    \A t \in Threads :
        (HasReturned(t) /\ Blank(txt[t])) =>
            /\ calls[t] = 0
            /\ TRANSLATOR_AVAILABLE => returned[t] = <<<<>>, <<"e", "n">>>>

C1_Witness ==
    \E t \in Threads :
        /\ HasReturned(t)
        /\ TRANSLATOR_AVAILABLE
        /\ txt[t] = <<" ", " ">>
        /\ returned[t] = <<<<>>, <<"e", "n">>>>

\* C2: when the backend is unavailable, every call returns one and the same
\* message, with src unchanged as second component, whatever the arguments
\* (empty text included), and the backend is never invoked.
C2_UnavailableSameMessage ==
    ~TRANSLATOR_AVAILABLE =>
        /\ \A t \in Threads :
              HasReturned(t) => (returned[t][2] = src[t] /\ calls[t] = 0)
        /\ \A t, u \in Threads :
              (HasReturned(t) /\ HasReturned(u)) => returned[t][1] = returned[u][1]
        /\ \A t \in Threads : pc[t] # "translate"

C2_Witness ==
    /\ ~TRANSLATOR_AVAILABLE
    /\ \E t, u \in Threads :
          /\ HasReturned(t) /\ HasReturned(u)
          /\ Blank(txt[t]) /\ ~Blank(txt[u])
          /\ src[t] # src[u]
          /\ returned[t][1] = returned[u][1]

\* C3 as stated: the unavailable message is exactly
\* "Translation library is not installed on the server.".
C3_MessageAsStated ==
    \A t \in Threads :
        (~TRANSLATOR_AVAILABLE /\ HasReturned(t)) =>
            returned[t][1] = <<"Translation library is not installed on the server.">>

\* C3 amended: the unavailable message is exactly
\* "Error: Translation library (googletrans) is not installed on the server.".
C3_MessageOfCode ==
    \A t \in Threads :
        (~TRANSLATOR_AVAILABLE /\ HasReturned(t)) =>
            returned[t][1] =
                <<"Error", ": Translation library (googletrans) is not installed on the server.">>

C3_Witness ==
    \E t \in Threads :
        /\ ~TRANSLATOR_AVAILABLE
        /\ HasReturned(t)
        /\ txt[t] = <<"a">>
        /\ Len(returned[t][1]) = 2

\* C4: backend available, text non-empty after trimming, backend call raises:
\* the fixed connection message, with src when src is not "auto", else "en".
C4_ErrorMessageAndFallback ==
    \A t \in Threads :
        (HasReturned(t) /\ response[t].kind = "error") =>
            /\ TRANSLATOR_AVAILABLE /\ ~Blank(txt[t])
            /\ returned[t][1] =
                 <<"Translation error",
                   ": Could not connect to the service. Please check your internet connection or try again later.">>
            /\ returned[t][2] = IF src[t] = <<"a", "u", "t", "o">> THEN <<"e", "n">> ELSE src[t]

C4_Witness ==
    \E t \in Threads :
        /\ HasReturned(t)
        /\ response[t].kind = "error"
        /\ src[t] = auto
        /\ returned[t][2] = en

\* the three no-op conditions of a normal backend answer, as the claims word them
NoOpConditions(t) ==
    /\ response[t].src # <<>>
    /\ lower(response[t].src) # lower(tgt[t])
    /\ strip(response[t].text) = strip(txt[t])

\* C5: normal backend answer and all three no-op conditions: the fixed
\* returned-original message, with the detected source as the backend gave it.
C5_NoOpFlagged ==
    \A t \in Threads :
        (HasReturned(t) /\ response[t].kind = "ok" /\ NoOpConditions(t)) =>
            /\ returned[t][1] =
                 <<"Translation failed",
                   ". The service returned the original text. This may be due to a temporary network issue or an unsupported language.">>
            /\ returned[t][2] = response[t].src

C5_Witness ==
    \E t \in Threads :
        /\ HasReturned(t)
        /\ response[t].kind = "ok"
        /\ response[t].text # txt[t]
        /\ response[t].src = EN
        /\ tgt[t] = tr
        /\ returned[t] = <<NOOP_MESSAGE, EN>>

\* C6: normal backend answer and at least one no-op condition fails: exactly
\* (translatedText, detectedSource) as the backend gave them.
C6_OtherwiseUnmodified ==
    \A t \in Threads :
        (HasReturned(t) /\ response[t].kind = "ok" /\ ~NoOpConditions(t)) =>
            returned[t] = <<response[t].text, response[t].src>>

C6_Witness ==
    \E t \in Threads :
        /\ HasReturned(t)
        /\ response[t].kind = "ok"
        /\ response[t].text = txt[t]
        /\ response[t].src = EN
        /\ tgt[t] = en
        /\ returned[t] = <<txt[t], EN>>

\* C7: one call invokes the backend at most once: exactly once when the backend
\* is available and the text is non-empty after trimming, else never; no second
\* invocation after an error or after the no-op heuristic fired.
C7_AtMostOneInvocation ==
    \A t \in Threads :
        /\ calls[t] <= 1
        /\ HasReturned(t) =>
              calls[t] = IF TRANSLATOR_AVAILABLE /\ ~Blank(txt[t]) THEN 1 ELSE 0

C7_Witness ==
    \E t \in Threads :
        /\ HasReturned(t)
        /\ response[t].kind = "error"
        /\ calls[t] = 1

\* the threads that hold what get_translator returned to them
Holding(t) == pc[t] \in {"check", "translate", "returned", "done"}

\* C8: under any interleaving the Translator object is constructed at most
\* once and every call uses that same instance.
C8_OneTranslator ==
    /\ created <= 1
    /\ \A t, u \in Threads :
          (Holding(t) /\ Holding(u)) => translator[t] = translator[u]

\* C9: translate_text_async resolves to exactly the pair translate_text returns
\* for the same arguments, the same availability and the same backend response.
C9_AsyncSameAsSync ==
    \A t, u \in Threads :
        ( /\ pc[t] = "done" /\ entry[t] = "sync"
          /\ pc[u] = "done" /\ entry[u] = "async"
          /\ txt[t] = txt[u] /\ src[t] = src[u] /\ tgt[t] = tgt[u]
          /\ response[t] = response[u] )
        => result[u] = result[t]

C9_Witness ==
    \E t, u \in Threads :
        /\ pc[t] = "done" /\ entry[t] = "sync"
        /\ pc[u] = "done" /\ entry[u] = "async"
        /\ txt[t] = txt[u] /\ src[t] = src[u] /\ tgt[t] = tgt[u]
        /\ response[t] = response[u]
        /\ response[t].kind = "ok"
        /\ result[u] = result[t]
        /\ result[u] # NoPair

\* C10: after a backend error the returned pair does not depend on the error's
\* detail: same arguments, different exceptions, identical pairs; and the
\* exception text is no part of the returned message.
C10_ErrorDetailHidden ==
    /\ \A t, u \in Threads :
          ( /\ HasReturned(t) /\ HasReturned(u)
            /\ response[t].kind = "error" /\ response[u].kind = "error"
            /\ txt[t] = txt[u] /\ src[t] = src[u] /\ tgt[t] = tgt[u] )
          => returned[t] = returned[u]
    /\ \A t \in Threads :
          (HasReturned(t) /\ response[t].kind = "error") =>
              \A i \in DOMAIN returned[t][1] : returned[t][1][i] # response[t].detail

C10_Witness ==
    \E t, u \in Threads :
        /\ HasReturned(t) /\ HasReturned(u)
        /\ response[t].kind = "error" /\ response[u].kind = "error"
        /\ response[t].detail # response[u].detail
        /\ txt[t] = txt[u] /\ src[t] = src[u] /\ tgt[t] = tgt[u]
        /\ returned[t] = returned[u]

\* C11: the backend is invoked with the text, the source specifier and the
\* target code exactly as the caller supplied them: text not trimmed, codes
\* outside the registry neither rejected nor rewritten.
C11_ArgumentsVerbatim ==
    \A t \in Threads :
        /\ calls[t] > 0 => request[t] = <<txt[t], src[t], tgt[t]>>
        /\ (HasReturned(t) /\ TRANSLATOR_AVAILABLE /\ ~Blank(txt[t])) => calls[t] > 0

C11_Witness ==
    \E t \in Threads :
        /\ calls[t] > 0
        /\ txt[t] = <<" ", "a">>
        /\ src[t] = zz
        /\ tgt[t] = zz
        /\ request[t] = <<<<" ", "a">>, zz, zz>>

\* C12: get_tts_language(code) is the LANG_TTS_MAP entry when code is a key
\* ("tr" gives "tr-TR") and code itself when it is not ("zz" gives "zz"); the
\* copies in app.py and translation_service.py agree on every code.
C12_LocaleOrIdentity ==
    lookup.kind = "tts" =>
        /\ \A i \in DOMAIN LANG_TTS_ITEMS :
              LANG_TTS_ITEMS[i][1] = lookup.code => lookup.app = LANG_TTS_ITEMS[i][2]
        /\ (\A i \in DOMAIN LANG_TTS_ITEMS : LANG_TTS_ITEMS[i][1] # lookup.code)
              => lookup.app = lookup.code
        /\ lookup.code = <<"t", "r">> => lookup.app = <<"t", "r", "-", "T", "R">>
        /\ lookup.code = <<"z", "z">> => lookup.app = <<"z", "z">>
        /\ lookup.service = lookup.app

C12_Witness ==
    /\ lookup.kind = "tts"
    /\ lookup.code = <<"e", "u">>
    /\ lookup.app = <<"e", "u">>
    /\ lookup.service = <<"e", "u">>

\* the options as the registry order gives them
OptionsInDefinitionOrder ==
    [i \in 1..Len(LANGUAGES) |-> [label |-> LANGUAGES[i][1], value |-> LANGUAGES[i][2]]]

\* C13: every call of get_language_options returns the same sequence, one
\* (label, value) per entry of LANGUAGES in definition order; "English (US)"
\* and "English (UK)" both appear, each with value "en".
C13_OptionsStableAndComplete ==
    \A k \in DOMAIN options :
        /\ options[k] = OptionsInDefinitionOrder
        /\ Len(options[k]) = Len(LANGUAGES)
        /\ \E i \in DOMAIN options[k] :
              options[k][i] = [label |-> <<"English (US)">>, value |-> <<"e", "n">>]
        /\ \E i \in DOMAIN options[k] :
              options[k][i] = [label |-> <<"English (UK)">>, value |-> <<"e", "n">>]

C13_Witness ==
    /\ Len(options) = 2
    /\ options[1] = options[2]
    /\ options[2][1].label = <<"English (US)">>
    /\ options[2][2].label = <<"English (UK)">>

\* C14: LANG_BY_CODE maps "en" to "English (US)" and "tr" to "Turkish".
C14_ReverseLookupAsCommented ==
    lookup.kind = "name" =>
        /\ lookup.code = <<"e", "n">> => lookup.name = <<"English (US)">>
        /\ lookup.code = <<"t", "r">> => lookup.name = <<"Turkish">>

\* what a call returns, told from its own arguments and its own backend response
OwnResult(t) ==
    CASE response[t].kind = "error" ->
           <<CONNECTION_MESSAGE, IF src[t] = auto THEN en ELSE src[t]>>
      [] response[t].kind = "ok" ->
           IF NoOpConditions(t) THEN <<NOOP_MESSAGE, response[t].src>>
           ELSE <<response[t].text, response[t].src>>
      [] OTHER ->
           IF TRANSLATOR_AVAILABLE THEN <<<<>>, en>> ELSE <<UNAVAILABLE_MESSAGE, src[t]>>

\* C15: under any interleaving, the pair a call returns is a function of its
\* own (txt, src, tgt) and of the backend's response to its own request only.
C15_OwnInputsOnly ==
    \A t \in Threads :
        /\ HasReturned(t) => returned[t] = OwnResult(t)
        /\ pc[t] = "done" => result[t] = OwnResult(t)

C15_Witness ==
    \E t, u \in Threads :
        /\ pc[t] = "translate"
        /\ pc[u] = "done"
        /\ src[t] # src[u] /\ tgt[t] # tgt[u]
        /\ response[u].kind = "error"
        /\ result[u] = OwnResult(u)

\* C17: for all string arguments, every availability and every backend outcome
\* a call of translate_text ends by returning a pair; no exception reaches
\* the caller.
C17_AlwaysReturnsPair ==
    /\ [](\A t \in Threads :
             /\ pc[t] # "raised"
             /\ HasReturned(t) => Len(returned[t]) = 2)
    /\ \A t \in Threads : (pc[t] = "get_translator") ~> HasReturned(t)

C17_Witness ==
    \E t \in Threads :
        /\ HasReturned(t)
        /\ response[t].kind = "error"
        /\ response[t].detail = "timed out"
        /\ txt[t] = <<"a", " ">>
        /\ Len(returned[t]) = 2

\* C16: on a Translate click perform_translation returns "" without calling
\* translate_text when the input is missing, empty or whitespace-only;
\* otherwise it calls translate_text exactly once, with source "auto" exactly
\* when Auto Detect is checked (else the source dropdown's value) and with the
\* target dropdown's value, and writes the result's first component to the
\* output textarea.
C16_PerformTranslation ==
    /\ [][("perform_translation" \in pending /\ "perform_translation" \notin pending') =>
            IF input_value = <<"None">> \/ input_value = <<>> \/ strip(input_value) = <<>>
            THEN /\ output_value' = <<>>
                 /\ pc' = pc
            ELSE /\ pc'[MainThread] = "get_translator"
                 /\ txt'[MainThread] = input_value
                 /\ src'[MainThread] = (IF is_auto THEN <<"a", "u", "t", "o">> ELSE src_lang)
                 /\ tgt'[MainThread] = tgt_lang
                 /\ output_value' = output_value]_vars
    /\ [][\A t \in Threads :
            (pc[t] # "get_translator" /\ pc'[t] = "get_translator") =>
                ("perform_translation" \in pending /\ "perform_translation" \notin pending')]_vars
    /\ [][\A t \in Threads :
            (pc[t] = "done" /\ pc'[t] = "idle") => output_value' = result[t][1]]_vars

C16_Witness ==
    /\ pc[MainThread] = "translate"
    /\ txt[MainThread] = <<"a">>
    /\ src[MainThread] = <<"e", "u">>
    /\ tgt[MainThread] = tr
    /\ output_value = NOOP_MESSAGE
    /\ input_value = <<" ">>

\* C18: whenever the output textarea holds one of translate_text's error
\* messages, update_output_buttons renders the listen and copy buttons disabled.
C18_ErrorMessagesDisabled ==
    output_value \in {UNAVAILABLE_MESSAGE, CONNECTION_MESSAGE, NOOP_MESSAGE} =>
        (output_buttons.text = output_value /\ output_buttons.disabled)

\* C19: after any sequence of page events, once all callbacks have run, the
\* speech language of the input listen button is the current source selection:
\* "auto" when Auto Detect is checked, else get_tts_language of the selected
\* source language.
C19_ListenLanguageCurrent ==
    (pending = {} /\ \A t \in Threads : pc[t] = "idle") =>
        input_buttons.lang_code = IF is_auto THEN auto ELSE get_tts_language(src_lang)

====
